---------------------------- MODULE Spec2Model ----------------------------
(***************************************************************************)
(* HTTP request signing via elliptic-curve JSON web keys                   *)
(* (xbox/webapi/common/signing.py).                                        *)
(*                                                                         *)
(* Representation.                                                         *)
(*   bytes           sequences over 0..255                                 *)
(*   str             sequences of ASCII codes (their UTF-8 encoding)       *)
(*   big integers    (curve coordinates, ECDSA r and s) their hexadecimal  *)
(*                   digits, most significant first, without leading       *)
(*                   zeros: what hex(i)[2:] and '{:x}'.format(i) print;    *)
(*                   zero is the empty sequence ("0x0".lstrip("0x"))       *)
(*   a call's result [tag |-> "ok", val |-> v] or                          *)
(*                   [tag |-> "raise", exc |-> name]                       *)
(*   ECDSA           the ideal signature functionality: `signed' records   *)
(*                   the (public key, hash, data, r, s) a private key      *)
(*                   issued, the signer's (r, s) is a nondeterministic     *)
(*                   choice among values of the curve's size not issued    *)
(*                   before, and a signature verifies iff it is recorded.  *)
(*                   Only the signature of the last signing call is handed *)
(*                   to a verifier, so only its record is kept.            *)
(***************************************************************************)
EXTENDS Integers, Sequences, FiniteSets, TLC

VARIABLES
    keys,       \* JwkKeyProvider.keys: the cached context of each algorithm
    generated,  \* identities of the keys ec.generate_private_key has returned
    signed,     \* ECDSA's ideal functionality: what the private key issued for
                \* the signature on the wire
    wire,       \* the last signing call: its inputs and its outcome
    last,       \* the last call of any operation: its inputs and its outcome
    pc,         \* concurrent callers: each thread's position in its call
    local,      \* concurrent callers: each thread's local variables
    imported    \* history: the context the last successful import_key stored
                \* for each algorithm (None before the first)

vars == <<keys, generated, signed, wire, last, pc, local, imported>>

None == [tag |-> "None"]

Ok(v) == [tag |-> "ok", val |-> v]

Raise(e) == [tag |-> "raise", exc |-> e]

Some(v) == [tag |-> "some", val |-> v]

\* A bytes object, a str object, and None where a bytes object is expected.
Bytes(data) == [type |-> "bytes", data |-> data]

Str(data) == [type |-> "str", data |-> data]

NoBody == [type |-> "NoneType", data |-> <<>>]

Min(a, b) == IF a <= b THEN a ELSE b

Max(a, b) == IF a >= b THEN a ELSE b

Zeros(n) == [i \in 1..n |-> 0]

(***************************************************************************)
(* SigningAlgorithmId and the per-algorithm lookup chains.                 *)
(***************************************************************************)
SigningAlgorithmId == {"ES256", "ES384", "ES521"}

\* A value that is not a member of the enumeration (a string, an int).
NotAnAlgorithm == "ES512"

\* Mutant of get_hash_instance_for_algorithm: SHA256 for every algorithm.
get_hash_instance_always_sha256(algorithm_id) ==
    IF algorithm_id \in {"ES256", "ES384", "ES521"} THEN Ok("SHA256") ELSE Raise("Exception")

get_hash_instance_for_algorithm(algorithm_id) ==
    IF algorithm_id = "ES256" THEN Ok("SHA256")
    ELSE IF algorithm_id = "ES384" THEN Ok("SHA384")
    ELSE IF algorithm_id = "ES521" THEN Ok("SHA512")
    ELSE Raise("Exception")

get_curve_instance_for_algorithm(algorithm_id) ==
    IF algorithm_id = "ES256" THEN Ok("SECP256R1")
    ELSE IF algorithm_id = "ES384" THEN Ok("SECP384R1")
    ELSE IF algorithm_id = "ES521" THEN Ok("SECP521R1")
    ELSE Raise("Exception")

get_curve_name_for_algorithm(algorithm_id) ==
    IF algorithm_id = "ES256" THEN Ok("P-256")
    ELSE IF algorithm_id = "ES384" THEN Ok("P-384")
    ELSE IF algorithm_id = "ES521" THEN Ok("P-521")
    ELSE Raise("Exception")

get_key_type_for_algorithm_id(algorithm_id) ==
    IF algorithm_id = "ES256" \/ algorithm_id = "ES384" \/ algorithm_id = "ES521"
    THEN Ok("EC")
    ELSE Raise("Exception")

\* The size in bits of a curve's field and order (the cryptography library's
\* ec.SECP256R1 / SECP384R1 / SECP521R1 key_size).
CurveBits(curve) ==
    CASE curve = "SECP256R1" -> 256
      [] curve = "SECP384R1" -> 384
      [] curve = "SECP521R1" -> 521

\* The number of hex digits, and of bytes, of the largest value of a curve.
CurveHexLen(curve) == (CurveBits(curve) + 3) \div 4

CurveBytes(curve) == (CurveBits(curve) + 7) \div 8

(***************************************************************************)
(* binascii and struct.                                                    *)
(***************************************************************************)
\* binascii.hexlify: two hex digits per byte.
hexlify(data) ==
    [i \in 1..(2 * Len(data)) |->
        IF i % 2 = 1 THEN data[(i + 1) \div 2] \div 16 ELSE data[i \div 2] % 16]

\* binascii.unhexlify of a string of an even number of digits.
unhexlify_pairs(hexstr) ==
    [i \in 1..(Len(hexstr) \div 2) |-> 16 * hexstr[2 * i - 1] + hexstr[2 * i]]

\* binascii.unhexlify: binascii.Error on an odd-length string.
unhexlify(hexstr) ==
    IF Len(hexstr) % 2 = 1 THEN Raise("binascii.Error")
    ELSE Ok(unhexlify_pairs(hexstr))

\* int(s, 16) of a digit string: the integer, i.e. the digits without leading zeros.
RECURSIVE first_nonzero(_, _)
first_nonzero(hexstr, i) ==
    IF i > Len(hexstr) \/ hexstr[i] # 0 THEN i ELSE first_nonzero(hexstr, i + 1)

int_of_hex(hexstr) == SubSeq(hexstr, first_nonzero(hexstr, 1), Len(hexstr))

\* '{:0Nx}'.format(i): at least `width' digits, padded with zeros on the left.
format_0x(i, width) == Zeros(Max(0, width - Len(i))) \o i

\* struct.pack('!I' / '!Q', n): n as `width' big-endian bytes.
RECURSIVE pack_be(_, _)
pack_be(n, width) ==
    IF width = 0 THEN <<>>
    ELSE Append(pack_be(n \div 256, width - 1), n % 256)

\* struct.unpack('!I' / '!Q', data)[0]: struct.error unless len(data) = width.
RECURSIVE be_value(_)
be_value(data) ==
    IF data = <<>> THEN 0
    ELSE 256 * be_value(SubSeq(data, 1, Len(data) - 1)) + data[Len(data)]

unpack_be(data, width) ==
    IF Len(data) # width THEN Raise("struct.error") ELSE Ok(be_value(data))

(***************************************************************************)
(* JwkUtils.                                                               *)
(***************************************************************************)
\* One group of 1..3 bytes as 2..4 characters of the URL-safe alphabet (a
\* character is its index in the alphabet); the "=" padding is never emitted,
\* which is what rstrip('=') leaves.
b64_group(g) ==
    LET b1 == g[1]
        b2 == IF Len(g) >= 2 THEN g[2] ELSE 0
        b3 == IF Len(g) >= 3 THEN g[3] ELSE 0
        c  == << b1 \div 4,
                 (b1 % 4) * 16 + b2 \div 16,
                 (b2 % 16) * 4 + b3 \div 64,
                 b3 % 64 >>
    IN SubSeq(c, 1, Len(g) + 1)

\* The groups of 3 bytes (the last of 1..3), each encoded, in order.
RECURSIVE b64_encode_from(_, _)
b64_encode_from(payload, from) ==
    IF from > Len(payload) THEN <<>>
    ELSE b64_group(SubSeq(payload, from, Min(from + 2, Len(payload))))
         \o b64_encode_from(payload, from + 3)

base64url_encode(payload) == b64_encode_from(payload, 1)

\* The bytes of one group of 2..4 characters.
b64_ungroup(c) ==
    LET c1 == c[1]
        c2 == c[2]
        c3 == IF Len(c) >= 3 THEN c[3] ELSE 0
        c4 == IF Len(c) >= 4 THEN c[4] ELSE 0
        b  == << c1 * 4 + c2 \div 16,
                 (c2 % 16) * 16 + c3 \div 4,
                 (c3 % 4) * 64 + c4 >>
    IN SubSeq(b, 1, Len(c) - 1)

RECURSIVE b64_decode_from(_, _)
b64_decode_from(payload, from) ==
    IF from > Len(payload) THEN <<>>
    ELSE b64_ungroup(SubSeq(payload, from, Min(from + 3, Len(payload))))
         \o b64_decode_from(payload, from + 4)

base64url_decode(payload) ==
    IF Len(payload) % 4 = 1 THEN Raise("ValueError")
    ELSE Ok(b64_decode_from(payload, 1))

\* JwkUtils.encode_int(i, bit_size); bit_size is None (the default) or Some(n).
encode_int(i, bit_size) ==
    LET extend0 == IF bit_size = None THEN 0 ELSE ((bit_size.val + 7) \div 8) * 2
        hexi    == i
        hexl    == Len(hexi)
        extend  == IF extend0 > hexl THEN extend0 - hexl ELSE hexl % 2
    IN base64url_encode(unhexlify(Zeros(extend) \o hexi).val)

(***************************************************************************)
(* Keys.  An EC key is [kind, curve, id]: kind is "private" or "public",   *)
(* id names the key pair (a private key and its public half share it).     *)
(* Any other object has another kind.                                      *)
(***************************************************************************)
MaxKeys == 3

\* The key pairs ec.generate_private_key can return.
KeyIds == 1..MaxKeys

isinstance_EllipticCurvePrivateKey(key) == key.kind = "private"

isinstance_EllipticCurvePublicKey(key) == key.kind = "public"

\* key.public_key()
public_key(key) == [key EXCEPT !.kind = "public"]

\* Keys a caller supplies to import_key: a P-256 private key, its public half,
\* a P-384 private key, and an object that is no EC key.
ImportedPrivate256 == [kind |-> "private", curve |-> "SECP256R1", id |-> 8]

ImportedPrivate384 == [kind |-> "private", curve |-> "SECP384R1", id |-> 9]

NotAKey == [kind |-> "bytes", curve |-> "none", id |-> 0]

ImportKeys == {ImportedPrivate256, public_key(ImportedPrivate256), ImportedPrivate384, NotAKey}

\* A big integer of n hex digits: a leading 1 and then the digit `fill'.
MkInt(n, fill) == [i \in 1..n |-> IF i = 1 THEN 1 ELSE fill]

\* pubkey.public_numbers(): the affine coordinates of a key pair's public point.
\* Coordinates are below 2^bits; one in 16 has a leading zero digit and one in
\* 256 a leading zero byte, so the key pairs cover full-length coordinates,
\* one digit fewer and two digits fewer.
public_numbers(pubkey) ==
    LET full == CurveHexLen(pubkey.curve)
    IN [x |-> MkInt(full - ((pubkey.id + 2) % 3), 10),
        y |-> MkInt(full - 2 * ((pubkey.id + 1) % 2), 11)]

(***************************************************************************)
(* JwkKeyContext and JwkKeyProvider: the cache.                            *)
(***************************************************************************)
JwkKeyContext(key, signing_algorithm) == [key |-> key, algo |-> signing_algorithm]

\* Mutant of keys_get: the lookup misses.
keys_get_misses(algorithm_id) == None

\* self.keys.get(algorithm_id)
keys_get(algorithm_id) == keys[algorithm_id]

\* Mutant of keys_store: setdefault, which keeps an entry already there.
keys_store_if_absent(algorithm_id, context) ==
    IF keys[algorithm_id] = None THEN [keys EXCEPT ![algorithm_id] = context] ELSE keys

\* Mutant of keys_store: the context is stored in every slot.
keys_store_everywhere(algorithm_id, context) == [a \in DOMAIN keys |-> context]

\* self.keys[algorithm_id] = context
keys_store(algorithm_id, context) == [keys EXCEPT ![algorithm_id] = context]

\* generate_jwk_ec: a key pair no earlier call returned, on the algorithm's curve.
generate_jwk_ec(algorithm_id, id) ==
    [kind |-> "private", curve |-> get_curve_instance_for_algorithm(algorithm_id).val, id |-> id]

\* JwkKeyProvider.get_key, as one call.
get_key(algorithm_id) ==
    /\ UNCHANGED <<signed, wire, pc, local, imported>>
    /\ IF algorithm_id \notin SigningAlgorithmId
       THEN /\ last' = [op |-> "get_key", algorithm_id |-> algorithm_id,
                        result |-> Raise("TypeError"), generated |-> FALSE]
            /\ UNCHANGED <<keys, generated>>
       ELSE LET existing_keycontext == keys_get(algorithm_id) IN
            IF existing_keycontext # None
            THEN /\ last' = [op |-> "get_key", algorithm_id |-> algorithm_id,
                             result |-> Ok(existing_keycontext), generated |-> FALSE]
                 /\ UNCHANGED <<keys, generated>>
            ELSE \E id \in KeyIds \ generated :
                   LET jw_key == generate_jwk_ec(algorithm_id, id)
                       key_context == JwkKeyContext(jw_key, algorithm_id)
                   IN /\ generated' = generated \cup {id}
                      /\ keys' = keys_store(algorithm_id, key_context)
                      /\ last' = [op |-> "get_key", algorithm_id |-> algorithm_id,
                                  result |-> Ok(key_context), generated |-> TRUE]

\* JwkKeyProvider.import_key, as one call.
import_key(algorithm_id, key) ==
    /\ UNCHANGED <<generated, signed, wire, pc, local>>
    /\ IF algorithm_id \notin SigningAlgorithmId
       THEN /\ last' = [op |-> "import_key", algorithm_id |-> algorithm_id, key |-> key,
                        result |-> Raise("TypeError")]
            /\ UNCHANGED <<keys, imported>>
       ELSE IF ~isinstance_EllipticCurvePrivateKey(key) /\ ~isinstance_EllipticCurvePublicKey(key)
       THEN /\ last' = [op |-> "import_key", algorithm_id |-> algorithm_id, key |-> key,
                        result |-> Raise("TypeError")]
            /\ UNCHANGED <<keys, imported>>
       ELSE LET context == JwkKeyContext(key, algorithm_id) IN
            /\ keys' = keys_store(algorithm_id, context)
            /\ imported' = [imported EXCEPT ![algorithm_id] = context]
            /\ last' = [op |-> "import_key", algorithm_id |-> algorithm_id, key |-> key,
                        result |-> Ok(context)]

\* JwkKeyProvider.__init__: an empty cache.
InitProvider ==
    /\ keys = [a \in SigningAlgorithmId |-> None]
    /\ generated = {}
    /\ imported = [a \in SigningAlgorithmId |-> None]

(***************************************************************************)
(* The time codec (xbox.webapi.common.filetimes).  A datetime is the       *)
(* number of microseconds, its resolution, since the FILETIME epoch; a     *)
(* FILETIME counts 100ns ticks since that epoch.                           *)
(***************************************************************************)
dt_to_filetime(dt) == dt * 10

filetime_to_dt(filetime) == filetime \div 10

(***************************************************************************)
(* JwkKeyContext: header and signable payload.                             *)
(***************************************************************************)
\* data[from:to] for 0 <= from <= to.
Slice(data, from, to) == SubSeq(data, from + 1, Min(to, Len(data)))

get_policy_version_buffer(version) == pack_be(version, 4)

\* Mutant of get_policy_version_from_buffer: the low byte only.
get_policy_version_from_low_byte(data) ==
    IF Len(data) # 4 THEN Raise("struct.error") ELSE Ok(data[4])

get_policy_version_from_buffer(data) == unpack_be(data, 4)

get_timestamp_buffer(dt) == pack_be(dt_to_filetime(dt), 8)

get_timestamp_from_buffer(data) ==
    LET filetime == unpack_be(data, 8)
    IN IF filetime.tag = "raise" THEN filetime ELSE Ok(filetime_to_dt(filetime.val))

assemble_header(policy, dt) ==
    get_policy_version_buffer(policy.version) \o get_timestamp_buffer(dt)

\* Returns Ok([version, timestamp_dt]) or what unpacking raised.
disassemble_header(data) ==
    LET policy_version == get_policy_version_from_buffer(Slice(data, 0, 4))
        timestamp_dt   == get_timestamp_from_buffer(Slice(data, 4, 4 + 8))
    IN IF policy_version.tag = "raise" THEN policy_version
       ELSE IF timestamp_dt.tag = "raise" THEN timestamp_dt
       ELSE Ok([version |-> policy_version.val, timestamp_dt |-> timestamp_dt.val])

\* Mutant of with_null_byte: no separator is appended.
with_no_null_byte(data) == data

\* str.upper on ASCII text.
str_upper(text) == [i \in 1..Len(text) |-> IF text[i] \in 97..122 THEN text[i] - 32 ELSE text[i]]

with_null_byte(data) == data \o <<0>>

\* Mutant of headers_get: every header reads as absent.
headers_get_absent(http_headers, name) == <<>>

\* http_headers.get(name, '')
headers_get(http_headers, name) ==
    IF name \in DOMAIN http_headers THEN http_headers[name] ELSE <<>>

\* The loop over policy.extra_headers.
RECURSIVE extra_headers_data(_, _)
extra_headers_data(extra_headers, http_headers) ==
    IF extra_headers = <<>> THEN <<>>
    ELSE with_null_byte(headers_get(http_headers, Head(extra_headers)))
         \o extra_headers_data(Tail(extra_headers), http_headers)

\* Mutant of body_size_to_hash: the whole body.
body_size_unlimited(policy, http_body) == Len(http_body.data)

\* How much body data to hash / sign.
body_size_to_hash(policy, http_body) == Min(Len(http_body.data), policy.max_body_bytes)

\* http_body is Bytes(data) or NoBody; len(None) raises TypeError.
assemble_signature_data(policy, dt, http_method, http_path_and_query, http_body, http_headers) ==
    IF http_body.type # "bytes" THEN Raise("TypeError")
    ELSE Ok(   with_null_byte(get_policy_version_buffer(policy.version))
            \o with_null_byte(get_timestamp_buffer(dt))
            \o with_null_byte(str_upper(http_method))
            \o with_null_byte(http_path_and_query)
            \o with_null_byte(headers_get(http_headers, "Authorization"))
            \o extra_headers_data(policy.extra_headers, http_headers)
            \o with_null_byte(Slice(http_body.data, 0, body_size_to_hash(policy, http_body))))

(***************************************************************************)
(* JwkKeyProvider: raw signing and verification.                           *)
(***************************************************************************)
signature_parameter_length == 32

signature_hex_width == 64

\* What private_key.sign records with the ideal functionality.
Issued(key, hash, data, rs) ==
    [pub |-> key.id, curve |-> key.curve, hash |-> hash, data |-> data, r |-> rs[1], s |-> rs[2]]

\* The (r, s) an ECDSA signer on `curve' can return: both non-zero and below
\* the curve's order: of full length, r one hex digit shorter, and both below
\* 2^256.
SignerOutputsOn(curve) ==
    LET full == CurveHexLen(curve)
    IN { <<MkInt(full, 2), MkInt(full, 3)>>,
         <<MkInt(full - 1, 4), MkInt(full, 5)>>,
         <<MkInt(62, 6), MkInt(64, 7)>> }

Curves == {"SECP256R1", "SECP384R1", "SECP521R1"}

SignerOutputsTable == [curve \in Curves |-> SignerOutputsOn(curve)]

SignerOutputs(curve) == SignerOutputsTable[curve]

\* Those not returned before (the signer's nonce is fresh).
FreshSignerOutputs(curve) ==
    { rs \in SignerOutputs(curve) : \A e \in signed : <<e.r, e.s>> # rs }

\* '{:064x}{:064x}'.format(signature_r, signature_s)
signature_hex(signature_r, signature_s) ==
    format_0x(signature_r, signature_hex_width) \o format_0x(signature_s, signature_hex_width)

\* JwkKeyProvider.sign_data; rs is what private_key.sign returned, decoded.
sign_data(private_key, algorithm_id, data, rs) ==
    IF ~isinstance_EllipticCurvePrivateKey(private_key) THEN Raise("InvalidKey")
    ELSE IF get_hash_instance_for_algorithm(algorithm_id).tag = "raise"
    THEN get_hash_instance_for_algorithm(algorithm_id)
    ELSE unhexlify(signature_hex(rs[1], rs[2]))

\* Whether sign_data reaches private_key.sign.
sign_data_signs(private_key, algorithm_id) ==
    /\ isinstance_EllipticCurvePrivateKey(private_key)
    /\ get_hash_instance_for_algorithm(algorithm_id).tag = "ok"

\* hexstring_to_int
hexstring_to_int(hexstring) == int_of_hex(hexlify(hexstring))

\* pubkey.verify: InvalidSignature unless the signature was issued.
pubkey_verify(pubkey, sig_r, sig_s, data, hash) ==
    [pub |-> pubkey.id, curve |-> pubkey.curve, hash |-> hash, data |-> data,
     r |-> sig_r, s |-> sig_s] \in signed

\* Mutant of signature_length_ok: the assertion is not made.
signature_length_unchecked(sig_part) == TRUE

\* assert len(sig_r) == signature_parameter_length, and the same for sig_s
signature_length_ok(sig_part) == Len(sig_part) = signature_parameter_length

\* JwkKeyProvider.verify_signature
provider_verify_signature(key, algorithm_id, signature, data) ==
    IF ~isinstance_EllipticCurvePublicKey(key) /\ ~isinstance_EllipticCurvePrivateKey(key)
    THEN Raise("TypeError")
    ELSE
    LET pubkey == IF isinstance_EllipticCurvePublicKey(key) THEN key ELSE public_key(key)
        sig_r  == Slice(signature, 0, signature_parameter_length)
        sig_s  == Slice(signature, signature_parameter_length, Len(signature))
        hash_instance == get_hash_instance_for_algorithm(algorithm_id)
    IN IF ~signature_length_ok(sig_r) THEN Raise("AssertionError")
       ELSE IF ~signature_length_ok(sig_s) THEN Raise("AssertionError")
       ELSE IF hash_instance.tag = "raise" THEN hash_instance
       ELSE Ok(pubkey_verify(pubkey, hexstring_to_int(sig_r), hexstring_to_int(sig_s),
                             data, hash_instance.val))

\* JwkKeyProvider.get_public_key_points
get_public_key_points(key) ==
    IF ~isinstance_EllipticCurvePublicKey(key) /\ ~isinstance_EllipticCurvePrivateKey(key)
    THEN Raise("TypeError")
    ELSE
    LET pubkey == IF isinstance_EllipticCurvePublicKey(key) THEN key ELSE public_key(key)
    IN Ok([x |-> encode_int(public_numbers(pubkey).x, None),
           y |-> encode_int(public_numbers(pubkey).y, None)])

\* JwkKeyProvider.get_proof_key
get_proof_key(key, algorithm_id) ==
    LET points   == get_public_key_points(key)
        curve    == get_curve_name_for_algorithm(algorithm_id)
        key_type == get_key_type_for_algorithm_id(algorithm_id)
    IN IF points.tag = "raise" THEN points
       ELSE IF curve.tag = "raise" THEN curve
       ELSE IF key_type.tag = "raise" THEN key_type
       ELSE Ok([alg |-> algorithm_id, use |-> "sig", crv |-> curve.val,
                kty |-> key_type.val, x |-> points.val.x, y |-> points.val.y])

(***************************************************************************)
(* JwkKeyContext: create_signature and verify_signature.                   *)
(***************************************************************************)
\* The payload create_signature signs.
signature_payload_of(signing_policy, dt, request) ==
    assemble_signature_data(signing_policy, dt, request.method, request.path_url,
                            request.body, request.headers)

\* What create_signature returns when the signer returns rs.
create_signature_result(context, signing_policy, dt, request, rs) ==
    LET header  == assemble_header(signing_policy, dt)
        payload == signature_payload_of(signing_policy, dt, request)
    IN IF payload.tag = "raise" THEN payload
       ELSE LET sig == sign_data(context.key, context.algo, payload.val, rs)
            IN IF sig.tag = "raise" THEN sig ELSE Ok(header \o sig.val)

\* JwkKeyContext.verify_signature: the outcome and the work done for it.
verify_signature(context, signing_policy, http_request, signature_data) ==
    IF signature_data.type # "bytes"
    THEN [result |-> Raise("Exception"), work |-> {}]
    ELSE
    LET signature_header  == Slice(signature_data.data, 0, 12)
        signature_payload == Slice(signature_data.data, 12, Len(signature_data.data))
        header == disassemble_header(signature_header)
    IN IF header.tag = "raise" THEN [result |-> header, work |-> {"header"}]
       ELSE IF signing_policy.version # header.val.version
       THEN [result |-> Ok(FALSE), work |-> {"header"}]
       ELSE LET data_to_sign == signature_payload_of(signing_policy, header.val.timestamp_dt,
                                                     http_request)
            IN IF data_to_sign.tag = "raise"
               THEN [result |-> data_to_sign, work |-> {"header", "payload"}]
               ELSE [result |-> provider_verify_signature(context.key, context.algo,
                                                          signature_payload, data_to_sign.val),
                     work |-> {"header", "payload", "verify"}]

(***************************************************************************)
(* Inputs.                                                                 *)
(***************************************************************************)
\* The body bytes a preset policy hashes (SISU_AUTH_XBOXLIVE: 8192), scaled.
MaxBodyBytes == 2

\* "POST", "/a"
BaseMethod == <<80, 79, 83, 84>>

BasePath == <<47, 97>>

\* A body one byte longer than MaxBodyBytes: "abc".
BaseBody == [i \in 1..(MaxBodyBytes + 1) |-> 96 + i]

\* A body that agrees with BaseBody on its first MaxBodyBytes bytes: "abxy".
LongBody == SubSeq(BaseBody, 1, MaxBodyBytes) \o <<120, 121>>

\* Larger than every body: the other presets' 9223372036854775807.
UnlimitedBodyBytes == Len(BaseBody) + Len(LongBody) + 2

PolicySisu ==
    [version |-> 1, extra_headers |-> <<>>, max_body_bytes |-> MaxBodyBytes,
     supported_algorithms |-> {"ES256"}]

PolicyExtra ==
    [version |-> 1, extra_headers |-> <<"X-H">>, max_body_bytes |-> UnlimitedBodyBytes,
     supported_algorithms |-> {"ES256"}]

\* PolicySisu with another version, which differs from 1 in the third byte only.
PolicyOtherVersion == [PolicySisu EXCEPT !.version = 257]

Policies == {PolicySisu, PolicyExtra, PolicyOtherVersion}

\* Microseconds since the epoch; 300 packs into two non-zero bytes.
DateTimes == {300}

BaseRequest ==
    [method |-> BaseMethod, path_url |-> BasePath, body |-> Bytes(BaseBody),
     headers |-> ("Authorization" :> <<116>>) @@ ("X-H" :> <<118>>)]

\* A request without a body (requests.PreparedRequest.body is None).
NoBodyRequest == [BaseRequest EXCEPT !.body = NoBody]

LongBodyRequest == [BaseRequest EXCEPT !.body = Bytes(LongBody)]

FlipBit(byte, k) == IF (byte \div (2 ^ k)) % 2 = 1 THEN byte - 2 ^ k ELSE byte + 2 ^ k

FlipIn(data, i, k) == [data EXCEPT ![i] = FlipBit(@, k)]

\* The bits flipped in a request: 0x01 and 0x20 (the case bit of an ASCII letter).
FlipBits == {0, 5}

MethodFlips(request, bits) ==
    { [request EXCEPT !.method = FlipIn(@, i, k)] : i \in 1..Len(request.method), k \in bits }

PathFlips(request, bits) ==
    { [request EXCEPT !.path_url = FlipIn(@, i, k)] : i \in 1..Len(request.path_url), k \in bits }

\* Flips in the first n bytes of the body.
BodyFlips(request, n, bits) ==
    { [request EXCEPT !.body.data = FlipIn(@, i, k)] :
        i \in 1..Min(n, Len(request.body.data)), k \in bits }

HeaderFlips(request, name, bits) ==
    IF name \notin DOMAIN request.headers THEN {}
    ELSE { [request EXCEPT !.headers[name] = FlipIn(@, i, k)] :
             i \in 1..Len(request.headers[name]), k \in bits }

\* The request with its body cut to n bytes, or with a byte appended.
BodyResized(request) ==
    { [request EXCEPT !.body.data = SubSeq(@, 1, n)] : n \in 0..Len(request.body.data) }
    \cup { [request EXCEPT !.body.data = Append(@, 100)] }

SignRequests == {BaseRequest, NoBodyRequest, LongBodyRequest}

VerifyRequests ==
    SignRequests \cup MethodFlips(BaseRequest, FlipBits) \cup PathFlips(BaseRequest, FlipBits)
    \cup BodyFlips(BaseRequest, Len(BaseBody), FlipBits)
    \cup HeaderFlips(BaseRequest, "X-H", FlipBits) \cup BodyResized(BaseRequest)

\* The context get_key builds around a key it generated.
new_key_context(algorithm_id, id) ==
    JwkKeyContext(generate_jwk_ec(algorithm_id, id), algorithm_id)

\* The contexts that sign: one get_key generated for each algorithm, one
\* holding only the public half, and one import_key built around a P-256
\* key for ES384.
SignContexts ==
    { new_key_context(a, 1) : a \in SigningAlgorithmId }
    \cup { JwkKeyContext(public_key(generate_jwk_ec("ES256", 1)), "ES256"),
           JwkKeyContext(ImportedPrivate256, "ES384") }

\* The contexts that verify: those, their public halves, contexts around
\* another generated key, and the one import_key builds for ES384 around the
\* P-256 key that get_key generated.
VerifyContexts ==
    SignContexts
    \cup { JwkKeyContext(public_key(c.key), c.algo) : c \in SignContexts }
    \cup { new_key_context(a, 2) : a \in SigningAlgorithmId }
    \cup { JwkKeyContext(generate_jwk_ec("ES256", 1), "ES384") }

\* A header of version 1 followed by 64 zero bytes.
ForgedSignature == Bytes(assemble_header(PolicySisu, 300) \o Zeros(64))

\* What a verifier may be handed once `sig' is on the wire: sig itself, sig
\* without its last byte, its first 11 bytes, sig under a header rewritten to
\* the other version, its text form (not bytes), and a forgery.
SignatureInputs(sig) ==
    { Bytes(sig),
      Bytes(SubSeq(sig, 1, Len(sig) - 1)),
      Bytes(SubSeq(sig, 1, 11)),
      Bytes(get_policy_version_buffer(PolicyOtherVersion.version) \o SubSeq(sig, 5, Len(sig))),
      Str(sig),
      ForgedSignature }

WireOk == wire # None /\ wire.result.tag = "ok"

VerifyInput(c, p, r, sd) == [context |-> c, policy |-> p, request |-> r, signature_data |-> sd]

\* The verifier's inputs: the signature on the wire with its policy and
\* request under every context; the context that signed under every policy,
\* with and without a body, on every form of the signature; and the context,
\* policy and signature on the wire with every request.
VerifyInputs ==
    IF ~WireOk
    THEN { VerifyInput(c, p, BaseRequest, ForgedSignature) : c \in SignContexts, p \in Policies }
    ELSE LET sig == wire.result.val IN
         { VerifyInput(c, wire.policy, wire.request, Bytes(sig)) : c \in VerifyContexts }
         \cup { VerifyInput(wire.context, p, r, sd) :
                  p \in Policies, r \in {wire.request, NoBodyRequest}, sd \in SignatureInputs(sig) }
         \cup { VerifyInput(wire.context, wire.policy, r, Bytes(sig)) : r \in VerifyRequests }

(***************************************************************************)
(* Calls on a key context.                                                 *)
(***************************************************************************)
\* JwkKeyContext.create_signature, as one call.
create_signature(context, signing_policy, dt, request) ==
    /\ UNCHANGED <<keys, generated, pc, local, imported>>
    /\ last' = [op |-> "create_signature"]
    /\ LET payload == signature_payload_of(signing_policy, dt, request)
           signs   == payload.tag = "ok" /\ sign_data_signs(context.key, context.algo)
       IN IF ~signs
          THEN /\ wire' = [op |-> "create_signature", context |-> context,
                           policy |-> signing_policy, dt |-> dt, request |-> request,
                           rs |-> <<>>,
                           result |-> create_signature_result(context, signing_policy, dt,
                                                              request, <<>>)]
               /\ signed' = {}
          ELSE \E rs \in FreshSignerOutputs(context.key.curve) :
                 /\ signed' = {Issued(context.key,
                                      get_hash_instance_for_algorithm(context.algo).val,
                                      payload.val, rs)}
                 /\ wire' = [op |-> "create_signature", context |-> context,
                             policy |-> signing_policy, dt |-> dt, request |-> request,
                             rs |-> rs,
                             result |-> create_signature_result(context, signing_policy, dt,
                                                                request, rs)]

\* JwkKeyContext.verify_signature, as one call.
verify_signature_call(context, signing_policy, http_request, signature_data) ==
    /\ UNCHANGED <<keys, generated, signed, wire, pc, local, imported>>
    /\ LET out == verify_signature(context, signing_policy, http_request, signature_data)
       IN last' = [op |-> "verify_signature", context |-> context, policy |-> signing_policy,
                   request |-> http_request, signature_data |-> signature_data,
                   result |-> out.result, work |-> out.work]

(***************************************************************************)
(* Calls of the provider's static methods.                                 *)
(***************************************************************************)
\* Every key: a generated pair per curve and identity, the public halves,
\* and an object that is no EC key.
CodecKeys ==
    { generate_jwk_ec(a, id) : a \in SigningAlgorithmId, id \in KeyIds }
    \cup { public_key(generate_jwk_ec(a, id)) : a \in SigningAlgorithmId, id \in KeyIds }
    \cup { NotAKey }

\* The keys handed to sign_data.
CodecSignKeys ==
    { generate_jwk_ec(a, 1) : a \in SigningAlgorithmId }
    \cup { public_key(generate_jwk_ec("ES256", 1)), NotAKey }

CodecData == { <<1>>, <<2>> }

\* JwkKeyProvider.sign_data, as one call.
sign_data_call(private_key, algorithm_id, data) ==
    /\ UNCHANGED <<keys, generated, pc, local, imported>>
    /\ last' = [op |-> "sign_data"]
    /\ IF ~sign_data_signs(private_key, algorithm_id)
       THEN /\ wire' = [op |-> "sign_data", key |-> private_key, algo |-> algorithm_id,
                        data |-> data, rs |-> <<>>,
                        result |-> sign_data(private_key, algorithm_id, data, <<>>)]
            /\ signed' = {}
       ELSE \E rs \in FreshSignerOutputs(private_key.curve) :
              /\ signed' = {Issued(private_key,
                                   get_hash_instance_for_algorithm(algorithm_id).val, data, rs)}
              /\ wire' = [op |-> "sign_data", key |-> private_key, algo |-> algorithm_id,
                          data |-> data, rs |-> rs,
                          result |-> sign_data(private_key, algorithm_id, data, rs)]

\* JwkKeyProvider.verify_signature, as one call.
provider_verify_signature_call(key, algorithm_id, signature, data) ==
    /\ UNCHANGED <<keys, generated, signed, wire, pc, local, imported>>
    /\ last' = [op |-> "provider_verify_signature", key |-> key, algo |-> algorithm_id,
                signature |-> signature, data |-> data,
                result |-> provider_verify_signature(key, algorithm_id, signature, data)]

\* JwkKeyProvider.get_public_key_points, as one call.
get_public_key_points_call(key) ==
    /\ UNCHANGED <<keys, generated, signed, wire, pc, local, imported>>
    /\ last' = [op |-> "get_public_key_points", key |-> key,
                result |-> get_public_key_points(key)]

\* JwkKeyProvider.get_proof_key, as one call.
get_proof_key_call(key, algorithm_id) ==
    /\ UNCHANGED <<keys, generated, signed, wire, pc, local, imported>>
    /\ last' = [op |-> "get_proof_key", key |-> key, algo |-> algorithm_id,
                result |-> get_proof_key(key, algorithm_id)]

ProviderVerifyInput(k, a, sig, d) == [key |-> k, algo |-> a, signature |-> sig, data |-> d]

\* What verify_signature is handed: the signature and data of the last
\* sign_data call under every key and algorithm, and every form of the
\* signature (whole, a byte short, a byte long, its first half, empty) with
\* the data and with other data, under the signing key and under no key.
ProviderVerifyInputs ==
    IF ~WireOk
    THEN { ProviderVerifyInput(k, "ES256", sig, <<1>>) :
             k \in CodecSignKeys, sig \in {Zeros(64), Zeros(63)} }
    ELSE LET sig == wire.result.val IN
         { ProviderVerifyInput(k, a, sig, wire.data) :
             k \in {wire.key, public_key(wire.key), NotAKey,
                    [wire.key EXCEPT !.id = 2]},
             a \in SigningAlgorithmId \cup {NotAnAlgorithm} }
         \cup { ProviderVerifyInput(k, wire.algo, sg, d) :
                  k \in {wire.key, NotAKey},
                  sg \in {sig, SubSeq(sig, 1, Len(sig) - 1), Append(sig, 0),
                          SubSeq(sig, 1, 32), <<>>},
                  d \in CodecData }

(***************************************************************************)
(* Calls of _assemble_signature_data.                                      *)
(***************************************************************************)
\* A policy with two extra headers, the first of which no request carries.
PolicyTwoExtra ==
    [version |-> 258, extra_headers |-> <<"X-Absent", "X-H">>, max_body_bytes |-> MaxBodyBytes,
     supported_algorithms |-> {"ES256"}]

PayloadPolicies == Policies \cup {PolicyTwoExtra}

PayloadDateTimes == {0, 300}

\* "post", "Post" and "POST"; with both headers, without Authorization and
\* without any; with a body longer than MaxBodyBytes, an empty one, and none.
PayloadRequests ==
    { [method |-> m, path_url |-> BasePath, body |-> b, headers |-> h] :
        m \in {BaseMethod, <<112, 111, 115, 116>>, <<80, 111, 115, 116>>},
        b \in {Bytes(BaseBody), Bytes(LongBody), Bytes(<<>>), NoBody},
        h \in {BaseRequest.headers, ("X-H" :> <<118>>), ("Accept" :> <<42>>)} }

\* JwkKeyContext._assemble_signature_data, as one call.
assemble_signature_data_call(policy, dt, request) ==
    /\ UNCHANGED <<keys, generated, signed, wire, pc, local, imported>>
    /\ last' = [op |-> "assemble_signature_data", policy |-> policy, dt |-> dt,
                request |-> request,
                result |-> assemble_signature_data(policy, dt, request.method,
                                                   request.path_url, request.body,
                                                   request.headers)]

(***************************************************************************)
(* Concurrent callers of one provider: a thread per call.  get_key reads   *)
(* the cache, generates a key and stores it in three steps, between which  *)
(* other threads run; import_key touches the cache once, in its store.     *)
(***************************************************************************)
NThreads == 2

Threads == 1..NThreads

NoLocal == [op |-> "none"]

\* get_key, up to its type check.
thread_get_key(t, algorithm_id) ==
    /\ pc[t] = "idle"
    /\ UNCHANGED <<keys, generated, signed, wire, last, imported>>
    /\ IF algorithm_id \notin SigningAlgorithmId
       THEN /\ pc' = [pc EXCEPT ![t] = "done"]
            /\ local' = [local EXCEPT ![t] = [op |-> "get_key", algorithm_id |-> algorithm_id,
                                              result |-> Raise("TypeError")]]
       ELSE /\ pc' = [pc EXCEPT ![t] = "lookup"]
            /\ local' = [local EXCEPT ![t] = [op |-> "get_key", algorithm_id |-> algorithm_id]]

\* existing_keycontext = self.keys.get(algorithm_id), and the return if there is one.
thread_lookup(t) ==
    /\ pc[t] = "lookup"
    /\ UNCHANGED <<keys, generated, signed, wire, last, imported>>
    /\ LET existing_keycontext == keys_get(local[t].algorithm_id) IN
       IF existing_keycontext # None
       THEN /\ pc' = [pc EXCEPT ![t] = "done"]
            /\ local' = [local EXCEPT ![t] = [op |-> "get_key",
                                              algorithm_id |-> local[t].algorithm_id,
                                              result |-> Ok(existing_keycontext)]]
       ELSE /\ pc' = [pc EXCEPT ![t] = "generate"]
            /\ UNCHANGED local

\* jw_key = self.generate_jwk_ec(algorithm_id); key_context = JwkKeyContext(...)
thread_generate(t) ==
    /\ pc[t] = "generate"
    /\ UNCHANGED <<keys, signed, wire, last, imported>>
    /\ \E id \in KeyIds \ generated :
         /\ generated' = generated \cup {id}
         /\ pc' = [pc EXCEPT ![t] = "store"]
         /\ local' = [local EXCEPT ![t] =
                        [op |-> "get_key", algorithm_id |-> local[t].algorithm_id,
                         key_context |-> JwkKeyContext(
                             generate_jwk_ec(local[t].algorithm_id, id),
                             local[t].algorithm_id)]]

\* self.keys[algorithm_id] = key_context; return key_context
thread_store(t) ==
    /\ pc[t] = "store"
    /\ UNCHANGED <<generated, signed, wire, last, imported>>
    /\ keys' = keys_store(local[t].algorithm_id, local[t].key_context)
    /\ pc' = [pc EXCEPT ![t] = "done"]
    /\ local' = [local EXCEPT ![t] = [op |-> "get_key",
                                      algorithm_id |-> local[t].algorithm_id,
                                      result |-> Ok(local[t].key_context)]]

\* import_key: its checks, its one store and its return.
thread_import_key(t, algorithm_id, key) ==
    /\ pc[t] = "idle"
    /\ UNCHANGED <<generated, signed, wire, last>>
    /\ pc' = [pc EXCEPT ![t] = "done"]
    /\ IF \/ algorithm_id \notin SigningAlgorithmId
          \/ ~isinstance_EllipticCurvePrivateKey(key) /\ ~isinstance_EllipticCurvePublicKey(key)
       THEN /\ local' = [local EXCEPT ![t] = [op |-> "import_key",
                                              algorithm_id |-> algorithm_id,
                                              result |-> Raise("TypeError")]]
            /\ UNCHANGED <<keys, imported>>
       ELSE LET context == JwkKeyContext(key, algorithm_id) IN
            /\ keys' = keys_store(algorithm_id, context)
            /\ imported' = [imported EXCEPT ![algorithm_id] = context]
            /\ local' = [local EXCEPT ![t] = [op |-> "import_key",
                                              algorithm_id |-> algorithm_id,
                                              result |-> Ok(context)]]

(***************************************************************************)
(* Specifications.                                                         *)
(***************************************************************************)
GetKey == \E a \in SigningAlgorithmId \cup {NotAnAlgorithm} : get_key(a)

ImportKey == \E a \in SigningAlgorithmId \cup {NotAnAlgorithm}, k \in ImportKeys : import_key(a, k)

CreateSignature ==
    \E c \in SignContexts, p \in Policies, dt \in DateTimes, r \in SignRequests :
        create_signature(c, p, dt, r)

VerifySignature ==
    \E i \in VerifyInputs :
        verify_signature_call(i.context, i.policy, i.request, i.signature_data)

Init ==
    /\ InitProvider
    /\ signed = {}
    /\ wire = None
    /\ last = [op |-> "none"]
    /\ pc = <<>>
    /\ local = <<>>

\* A key provider, its callers one at a time.
NextProvider == GetKey \/ ImportKey

SpecProvider == Init /\ [][NextProvider]_vars

\* Key contexts signing requests and verifying signatures.
Next == CreateSignature \/ VerifySignature

Spec == Init /\ [][Next]_vars

\* The provider's static methods on keys, data and signatures.
SignData ==
    \E k \in CodecSignKeys, a \in SigningAlgorithmId \cup {NotAnAlgorithm} :
        sign_data_call(k, a, <<1>>)

ProviderVerify ==
    \E i \in ProviderVerifyInputs :
        provider_verify_signature_call(i.key, i.algo, i.signature, i.data)

GetPublicKeyPoints == \E k \in CodecKeys : get_public_key_points_call(k)

GetProofKey ==
    \E k \in CodecSignKeys, a \in SigningAlgorithmId \cup {NotAnAlgorithm} :
        get_proof_key_call(k, a)

NextCodec == SignData \/ ProviderVerify \/ GetPublicKeyPoints \/ GetProofKey

SpecCodec == Init /\ [][NextCodec]_vars

\* Concurrent callers of one provider.
AssembleSignatureData ==
    \E p \in PayloadPolicies, dt \in PayloadDateTimes, r \in PayloadRequests :
        assemble_signature_data_call(p, dt, r)

NextPayload == AssembleSignatureData

SpecPayload == Init /\ [][NextPayload]_vars

InitConc ==
    /\ InitProvider
    /\ signed = {}
    /\ wire = None
    /\ last = [op |-> "none"]
    /\ pc = [t \in Threads |-> "idle"]
    /\ local = [t \in Threads |-> NoLocal]

ThreadGetKey == \E t \in Threads, a \in SigningAlgorithmId \cup {NotAnAlgorithm} : thread_get_key(t, a)

ThreadLookup == \E t \in Threads : thread_lookup(t)

ThreadGenerate == \E t \in Threads : thread_generate(t)

ThreadStore == \E t \in Threads : thread_store(t)

ThreadImportKey ==
    \E t \in Threads, a \in SigningAlgorithmId \cup {NotAnAlgorithm}, k \in ImportKeys :
        thread_import_key(t, a, k)

NextConc == ThreadGetKey \/ ThreadLookup \/ ThreadGenerate \/ ThreadStore \/ ThreadImportKey

SpecConc == InitConc /\ [][NextConc]_vars

(***************************************************************************)
(* Claims.                                                                 *)
(***************************************************************************)
\* C1.  The provider holds at most one cached context per AlgorithmId (the
\* slot of algorithm a holds nothing or one context of algorithm a); a
\* get_key(a) that finds a context cached returns that context, generates no
\* key and leaves the cache as it is, and one that finds the slot empty
\* generates a key, caches its context and returns it; so a get_key(a) right
\* after a get_key(a) returns the same context.
C1_CacheIdempotent ==
    [][ /\ \A a \in SigningAlgorithmId : keys'[a] # None => keys'[a].algo = a
        /\ (last'.op = "get_key" /\ last'.result.tag = "ok") =>
             LET a == last'.algorithm_id IN
             /\ keys[a] # None =>
                  /\ last'.result.val = keys[a]
                  /\ ~last'.generated
                  /\ keys' = keys
                  /\ generated' = generated
             /\ keys[a] = None =>
                  /\ last'.generated
                  /\ keys'[a] = last'.result.val
                  /\ last'.result.val.key.id \notin generated
             /\ (last.op = "get_key" /\ last.algorithm_id = a /\ last.result.tag = "ok") =>
                  /\ last'.result = last.result
                  /\ last'.result.val.key = last.result.val.key
      ]_vars

\* C1 witness: a get_key that was served from the cache with a key an earlier
\* get_key generated.
C1_Witness ==
    /\ last.op = "get_key"
    /\ last.result.tag = "ok"
    /\ ~last.generated
    /\ last.result.val.key.id \in generated

\* C2.  A successful import_key(a, key) leaves the context of the imported key
\* in the slot of a, whatever was cached there, and every get_key(a) after it
\* and before the next import_key(a, _) returns that context and generates
\* nothing.
C2_ImportOverwrites ==
    /\ \A a \in SigningAlgorithmId : imported[a] # None => keys[a] = imported[a]
    /\ (last.op = "import_key" /\ last.result.tag = "ok") =>
         /\ last.result.val = JwkKeyContext(last.key, last.algorithm_id)
         /\ keys[last.algorithm_id] = last.result.val
    /\ (last.op = "get_key" /\ last.result.tag = "ok" /\ imported[last.algorithm_id] # None) =>
         /\ last.result.val = imported[last.algorithm_id]
         /\ ~last.generated

\* C2 witness: get_key after an import_key into a slot, every slot having held
\* a generated key before.
C2_Witness ==
    /\ last.op = "get_key"
    /\ last.result.tag = "ok"
    /\ imported[last.algorithm_id] # None
    /\ Cardinality(generated) = Cardinality(SigningAlgorithmId)

\* C3.  Concurrent get_key callers of one algorithm whose slot no import_key
\* filled all receive the same context: no two keys are generated for the
\* slot.
C3_GetSerialized ==
    \A t1, t2 \in DOMAIN pc :
        ( /\ pc[t1] = "done" /\ pc[t2] = "done"
          /\ local[t1].op = "get_key" /\ local[t2].op = "get_key"
          /\ local[t1].algorithm_id = local[t2].algorithm_id
          /\ local[t1].result.tag = "ok" /\ local[t2].result.tag = "ok"
          /\ imported[local[t1].algorithm_id] = None )
        => local[t1].result = local[t2].result

\* The contexts get_key returns around a key it generated.
GeneratedContexts == { new_key_context(a, id) : a \in SigningAlgorithmId, id \in KeyIds }

\* The last call verified the signature on the wire, with the context and
\* policy that made it.
VerifiedWire ==
    /\ WireOk
    /\ wire.op = "create_signature"
    /\ last.op = "verify_signature"
    /\ last.context = wire.context
    /\ last.policy = wire.policy
    /\ last.signature_data = Bytes(wire.result.val)

\* C4.  For a context get_key generated, of each algorithm, and any policy,
\* timestamp and request with a body, create_signature returns a signature,
\* and verify_signature of that signature for the same policy and request
\* returns true.
C4_RoundTrip ==
    /\ (wire # None /\ wire.op = "create_signature" /\ wire.context \in GeneratedContexts
          /\ wire.request.body.type = "bytes")
       => wire.result.tag = "ok"
    /\ (VerifiedWire /\ wire.context \in GeneratedContexts /\ last.request = wire.request)
       => last.result = Ok(TRUE)

\* C5.  verify_signature returns false whenever the four bytes that open a
\* header of 12 bytes hold another version than policy.version, having
\* parsed the header and neither rebuilt the payload nor called the
\* provider's verification; so a signature made under one version does not
\* verify under a policy that differs in its version only.
C5_VersionGate ==
    /\ ( /\ last.op = "verify_signature"
         /\ last.signature_data.type = "bytes"
         /\ Len(last.signature_data.data) >= 12
         /\ be_value(SubSeq(last.signature_data.data, 1, 4)) # last.policy.version )
       => /\ last.result = Ok(FALSE)
          /\ last.work = {"header"}
    /\ ( /\ WireOk
         /\ wire.op = "create_signature"
         /\ last.op = "verify_signature"
         /\ last.context = wire.context
         /\ last.request = wire.request
         /\ last.signature_data = Bytes(wire.result.val)
         /\ last.policy.version # wire.policy.version
         /\ last.policy = [wire.policy EXCEPT !.version = last.policy.version] )
       => last.result = Ok(FALSE)

\* C5 witness: a signature made under version 257 was refused under the
\* policy of version 1, which has the same low byte.
C5_Witness ==
    /\ WireOk
    /\ wire.op = "create_signature"
    /\ wire.policy = PolicyOtherVersion
    /\ last.op = "verify_signature"
    /\ last.policy = PolicySisu
    /\ last.context = wire.context
    /\ last.request = wire.request
    /\ last.signature_data = Bytes(wire.result.val)
    /\ last.result = Ok(FALSE)
    /\ last.work = {"header"}

\* The requests that differ from `request' in one bit of the method, the
\* path, the body bytes the policy hashes, or the value of a header the
\* policy names.
Tampered(request, policy, bits) ==
    MethodFlips(request, bits) \cup PathFlips(request, bits)
    \cup BodyFlips(request, body_size_to_hash(policy, request.body), bits)
    \cup UNION { HeaderFlips(request, policy.extra_headers[i], bits) :
                   i \in 1..Len(policy.extra_headers) }

\* The flip changed the case of a letter of the method and nothing else.
CaseFlipOfMethod(request, tampered) ==
    /\ tampered # request
    /\ tampered = [request EXCEPT !.method = tampered.method]
    /\ str_upper(tampered.method) = str_upper(request.method)

\* C6 as stated.  A signature does not verify (verify_signature returns
\* false) for a request that differs from the signed one in a single bit of
\* the method, the path, the hashed prefix of the body or the value of an
\* extra header.
C6_AnyFlipFails ==
    ( /\ VerifiedWire
      /\ wire.request.body.type = "bytes"
      /\ last.request \in Tampered(wire.request, wire.policy, FlipBits) )
    => last.result = Ok(FALSE)

\* C6, amended.  For such a request verify_signature never returns true,
\* unless the flipped bit is the case bit of a letter of the method, which
\* upper-casing undoes: then the verdict is that of the signed request.
\* Where the signature has 64 bytes after its header the verdict is false
\* for the other flips and true for the case flip; where it has not, the
\* call fails with AssertionError.
C6_TamperDetected ==
    ( /\ VerifiedWire
      /\ wire.request.body.type = "bytes"
      /\ last.request \in Tampered(wire.request, wire.policy, FlipBits) )
    => /\ ~CaseFlipOfMethod(wire.request, last.request) => last.result # Ok(TRUE)
       /\ Len(wire.result.val) = 12 + 64 =>
            last.result = Ok(CaseFlipOfMethod(wire.request, last.request))
       /\ Len(wire.result.val) # 12 + 64 => last.result = Raise("AssertionError")

\* C6 witness: a flip in the value of the header PolicyExtra names was
\* answered with false.
C6_Witness ==
    /\ VerifiedWire
    /\ wire.policy = PolicyExtra
    /\ last.request \in HeaderFlips(wire.request, "X-H", FlipBits)
    /\ last.result = Ok(FALSE)

\* Two requests equal in method, path and headers whose bodies agree on the
\* first max_body_bytes bytes and differ after them.
DifferAfterPrefix(policy, r1, r2) ==
    /\ r1.body.type = "bytes" /\ r2.body.type = "bytes"
    /\ r2 = [r1 EXCEPT !.body = r2.body]
    /\ r1.body # r2.body
    /\ Len(r1.body.data) >= policy.max_body_bytes
    /\ Len(r2.body.data) >= policy.max_body_bytes
    /\ SubSeq(r1.body.data, 1, policy.max_body_bytes)
         = SubSeq(r2.body.data, 1, policy.max_body_bytes)

\* A step from one create_signature to the next, both with the same context,
\* policy and timestamp, on two such requests.
SignedBoth ==
    /\ WireOk /\ wire.op = "create_signature"
    /\ wire'.op = "create_signature" /\ wire'.result.tag = "ok"
    /\ wire'.context = wire.context
    /\ wire'.policy = wire.policy
    /\ wire'.dt = wire.dt
    /\ DifferAfterPrefix(wire.policy, wire.request, wire'.request)

\* C7 as stated.  Two such requests get identical signatures.
C7_IdenticalSignatures == [][ SignedBoth => wire'.result = wire.result ]_vars

\* C7, amended.  Two such requests get the same header and the same signable
\* payload, only the first min(len(body), max_body_bytes) body bytes being
\* in it; the signatures differ exactly as what the signer returned differs,
\* and the signature of one is verified for the other as it is for itself
\* (true where it has 64 bytes after the header).
C7_TruncatedBodySigned ==
    [][ /\ SignedBoth =>
             /\ signature_payload_of(wire'.policy, wire'.dt, wire'.request)
                  = signature_payload_of(wire.policy, wire.dt, wire.request)
             /\ signed'= { [e EXCEPT !.r = wire'.rs[1], !.s = wire'.rs[2]] : e \in signed }
             /\ SubSeq(wire'.result.val, 1, 12) = SubSeq(wire.result.val, 1, 12)
             /\ wire'.result = create_signature_result(wire.context, wire.policy, wire.dt,
                                                       wire.request, wire'.rs)
        /\ ( /\ VerifiedWire'
             /\ DifferAfterPrefix(wire'.policy, wire'.request, last'.request) )
           => /\ Len(wire'.result.val) = 12 + 64 => last'.result = Ok(TRUE)
              /\ Len(wire'.result.val) # 12 + 64 => last'.result = Raise("AssertionError")
      ]_vars

\* C7 witness: the signature of a request was verified for a longer request
\* that agrees with it on the hashed bytes.
C7_Witness ==
    /\ VerifiedWire
    /\ wire.policy = PolicySisu
    /\ wire.request = BaseRequest
    /\ last.request = LongBodyRequest
    /\ DifferAfterPrefix(wire.policy, wire.request, last.request)
    /\ last.result = Ok(TRUE)

\* An EC key, private or public.
IsEcKey(key) == isinstance_EllipticCurvePrivateKey(key) \/ isinstance_EllipticCurvePublicKey(key)

\* C8.  The provider's verify_signature fails with TypeError for a key that
\* is neither an EC private nor an EC public key and with AssertionError for
\* a signature of any length other than 64 under an EC key; it returns only
\* for an EC key, a signature of 64 bytes and a known algorithm, true where
\* the two halves are the (r, s) the key pair issued for the data under the
\* algorithm's hash and false where they are not.
C8_VerifyFailsHard ==
    last.op = "provider_verify_signature" =>
      /\ ~IsEcKey(last.key) => last.result = Raise("TypeError")
      /\ (IsEcKey(last.key) /\ Len(last.signature) # 64) => last.result = Raise("AssertionError")
      /\ last.result.tag = "ok" =>
           /\ IsEcKey(last.key)
           /\ Len(last.signature) = 64
           /\ last.algo \in SigningAlgorithmId
           /\ last.result.val \in BOOLEAN
           /\ last.result.val <=>
                \E e \in signed :
                   /\ e.pub = last.key.id /\ e.curve = last.key.curve
                   /\ e.data = last.data
                   /\ e.hash = get_hash_instance_for_algorithm(last.algo).val
                   /\ format_0x(e.r, 64) = hexlify(SubSeq(last.signature, 1, 32))
                   /\ format_0x(e.s, 64) = hexlify(SubSeq(last.signature, 33, 64))

\* C8 witness: a signature one byte short of the 64 that sign_data returned
\* was refused with AssertionError under the key that signed.
C8_Witness ==
    /\ WireOk
    /\ wire.op = "sign_data"
    /\ Len(wire.result.val) = 64
    /\ last.op = "provider_verify_signature"
    /\ last.key = wire.key
    /\ last.signature = SubSeq(wire.result.val, 1, 63)
    /\ last.result = Raise("AssertionError")

\* C9.  sign_data returns, for a private key of every algorithm and every
\* (r, s) the signer produces, 64 bytes: the 32 bytes of r, big-endian, and
\* then the 32 bytes of s.
C9_SixtyFourBytes ==
    ( /\ wire # None
      /\ wire.op = "sign_data"
      /\ sign_data_signs(wire.key, wire.algo) )
    => /\ wire.result.tag = "ok"
       /\ Len(wire.result.val) = 64
       /\ hexstring_to_int(SubSeq(wire.result.val, 1, 32)) = wire.rs[1]
       /\ hexstring_to_int(SubSeq(wire.result.val, 33, 64)) = wire.rs[2]

\* C10.  get_public_key_points returns, for every EC key, each coordinate as
\* the base64url text of CurveBytes bytes (32, 48 or 66), and the x and y of
\* get_proof_key are those texts.
C10_FixedWidthCoordinates ==
    /\ (last.op = "get_public_key_points" /\ IsEcKey(last.key)) =>
         /\ last.result.tag = "ok"
         /\ Len(base64url_decode(last.result.val.x).val) = CurveBytes(last.key.curve)
         /\ Len(base64url_decode(last.result.val.y).val) = CurveBytes(last.key.curve)
    /\ (last.op = "get_proof_key" /\ last.result.tag = "ok") =>
         /\ Len(base64url_decode(last.result.val.x).val) = CurveBytes(last.key.curve)
         /\ Len(base64url_decode(last.result.val.y).val) = CurveBytes(last.key.curve)

\* C13.  A get_key(a) or import_key(a, key) call changes at most the cache
\* slot of a: the slot of every other algorithm holds what it held before,
\* and a call that raises (a is no SigningAlgorithmId, or key is no EC key)
\* leaves the whole cache as it was and generates nothing.
C13_FrameOfCall ==
    [][ last'.op \in {"get_key", "import_key"} =>
          /\ \A b \in SigningAlgorithmId :
                b # last'.algorithm_id => keys'[b] = keys[b]
          /\ DOMAIN keys' = DOMAIN keys
          /\ last'.result.tag = "raise" => (keys' = keys /\ generated' = generated)
      ]_vars

\* C13 witness: an import_key replaced the context of its slot while the two
\* other slots held contexts.
C13_Witness ==
    /\ last.op = "import_key"
    /\ last.result.tag = "ok"
    /\ \A b \in SigningAlgorithmId : keys[b] # None
    /\ \A b \in SigningAlgorithmId \ {last.algorithm_id} : keys[b] # last.result.val

\* C12.  A signature create_signature made with an ES256 context is refused
\* (verify_signature returns false) by every ES384 context, around a P-384
\* key or around the very key that signed, for the same policy and request.
C12_AlgorithmIsolation ==
    ( /\ WireOk
      /\ wire.op = "create_signature"
      /\ wire.context.algo = "ES256"
      /\ last.op = "verify_signature"
      /\ last.context.algo = "ES384"
      /\ last.policy = wire.policy
      /\ last.request = wire.request
      /\ last.signature_data = Bytes(wire.result.val) )
    => last.result = Ok(FALSE)

\* C12 witness: the ES384 context get_key generated refused the signature of
\* the ES256 context under the policy that signed.
C12_Witness ==
    /\ WireOk
    /\ wire.op = "create_signature"
    /\ wire.context = new_key_context("ES256", 1)
    /\ wire.policy = PolicySisu
    /\ last.op = "verify_signature"
    /\ last.context = new_key_context("ES384", 1)
    /\ last.policy = wire.policy
    /\ last.request = wire.request
    /\ last.signature_data = Bytes(wire.result.val)
    /\ last.work = {"header", "payload", "verify"}
    /\ last.result = Ok(FALSE)

\* Every field followed by one NUL byte, in order.
RECURSIVE JoinNul(_)
JoinNul(fields) ==
    IF fields = <<>> THEN <<>>
    ELSE Head(fields) \o <<0>> \o JoinNul(Tail(fields))

\* The value of a header, empty when the request has none of that name.
ValueOf(headers, name) == IF name \in DOMAIN headers THEN headers[name] ELSE <<>>

\* C11.  The signable payload of (policy, timestamp, method, path, headers,
\* body) is, in this order, the 4 bytes of the policy version (big-endian),
\* the 8 bytes of the timestamp (big-endian ticks), the upper-cased method,
\* the path, the Authorization value (empty when absent), the value of each
\* policy.extra_headers name in list order (empty when absent) and the first
\* min(len(body), max_body_bytes) body bytes, each followed by one NUL byte
\* and nothing else.
C11_PayloadLayout ==
    (last.op = "assemble_signature_data" /\ last.request.body.type = "bytes") =>
      /\ last.result.tag = "ok"
      /\ LET data    == last.result.val
             policy  == last.policy
             request == last.request
             extra   == [i \in 1..Len(policy.extra_headers) |->
                           ValueOf(request.headers, policy.extra_headers[i])]
             body    == SubSeq(request.body.data, 1,
                               IF Len(request.body.data) <= policy.max_body_bytes
                               THEN Len(request.body.data) ELSE policy.max_body_bytes)
             upper   == [i \in 1..Len(request.method) |->
                           IF request.method[i] \in 97..122 THEN request.method[i] - 32
                           ELSE request.method[i]]
         IN /\ Len(data) >= 14
            /\ be_value(SubSeq(data, 1, 4)) = policy.version
            /\ be_value(SubSeq(data, 6, 13)) = dt_to_filetime(last.dt)
            /\ data = JoinNul(<<SubSeq(data, 1, 4), SubSeq(data, 6, 13), upper,
                                request.path_url, ValueOf(request.headers, "Authorization")>>
                              \o extra \o <<body>>)

\* C11 witness: the payload of a lower-case method, no Authorization header,
\* two extra headers of which the first is absent, and a body longer than
\* max_body_bytes.
C11_Witness ==
    /\ last.op = "assemble_signature_data"
    /\ last.result.tag = "ok"
    /\ last.policy = PolicyTwoExtra
    /\ last.dt = 300
    /\ last.request.method = <<112, 111, 115, 116>>
    /\ "Authorization" \notin DOMAIN last.request.headers
    /\ "X-H" \in DOMAIN last.request.headers
    /\ last.request.body = Bytes(LongBody)
    /\ Len(last.result.val) = 5 + 9 + 5 + (Len(BasePath) + 1) + 1 + 1 + 2 + (MaxBodyBytes + 1)

=============================================================================
